---- MODULE Spec2Model ----
(***************************************************************************)
(* Model of src/main.py: the Fuelio -> Lubelogger fillup importer.         *)
(*                                                                         *)
(* Text is modelled as a sequence of one-character strings, so that        *)
(* datetime.strptime, strftime and the notes template are computed on the  *)
(* characters as Python computes them.                                     *)
(***************************************************************************)
EXTENDS Integers, Sequences, FiniteSets, Bags, TLC

(* ----------------------------- bounds ---------------------------------- *)
\* longest CSV handed to main / longest list handed to process_fillups
MaxRows == 2
\* longest CSV handed to filter_fuelio_fillups when it is called on its own
MaxFilterRows == 2
\* most fillups the destination holds before the first run
MaxExisting == 2
\* number of consecutive runs of the program
MaxRuns == 2

(* ------------------------------ text ----------------------------------- *)
Digits == <<"0", "1", "2", "3", "4", "5", "6", "7", "8", "9">>

IsDigit(c) == \E i \in 1..10 : Digits[i] = c

DigitVal(c) == (CHOOSE i \in 1..10 : Digits[i] = c) - 1

IsSpace(c) == c = " "

AllDigits(s) == \A i \in 1..Len(s) : IsDigit(s[i])

\* value of a string of one to four decimal digits
Num(s) ==
  IF Len(s) = 1 THEN DigitVal(s[1])
  ELSE IF Len(s) = 2 THEN 10 * DigitVal(s[1]) + DigitVal(s[2])
  ELSE IF Len(s) = 3 THEN 100 * DigitVal(s[1]) + 10 * DigitVal(s[2]) + DigitVal(s[3])
  ELSE 1000 * DigitVal(s[1]) + 100 * DigitVal(s[2]) + 10 * DigitVal(s[3]) + DigitVal(s[4])

\* "%02d" and "%04d"
Pad2(n) == <<Digits[((n \div 10) % 10) + 1], Digits[(n % 10) + 1]>>

Pad4(n) == <<Digits[((n \div 1000) % 10) + 1], Digits[((n \div 100) % 10) + 1]>> \o Pad2(n % 100)

\* str.strip() for the blank the model knows
RECURSIVE LStrip(_)
LStrip(s) == IF s # <<>> /\ IsSpace(Head(s)) THEN LStrip(Tail(s)) ELSE s

RECURSIVE RStrip(_)
RStrip(s) == IF s # <<>> /\ IsSpace(s[Len(s)]) THEN RStrip(SubSeq(s, 1, Len(s) - 1)) ELSE s

Strip(s) == RStrip(LStrip(s))

(* ------------------- datetime.strptime(.., "%Y-%m-%d %H:%M") ------------ *)
\* The directives as the regular expression the library compiles them to:
\*   %Y \d\d\d\d                          %m 1[0-2]|0[1-9]|[1-9]
\*   %d 3[0-1]|[1-2]\d|0[1-9]|[1-9]| [1-9] ' ' \s+
\*   %H 2[0-3]|[0-1]\d|\d                 %M [0-5]\d|\d
ReY(s) == Len(s) = 4 /\ AllDigits(s)

ReM(s) ==
  \/ Len(s) = 2 /\ s[1] = "1" /\ s[2] \in {"0", "1", "2"}
  \/ Len(s) = 2 /\ s[1] = "0" /\ IsDigit(s[2]) /\ s[2] # "0"
  \/ Len(s) = 1 /\ IsDigit(s[1]) /\ s[1] # "0"

ReD(s) ==
  \/ Len(s) = 2 /\ s[1] = "3" /\ s[2] \in {"0", "1"}
  \/ Len(s) = 2 /\ s[1] \in {"1", "2"} /\ IsDigit(s[2])
  \/ Len(s) = 2 /\ s[1] = "0" /\ IsDigit(s[2]) /\ s[2] # "0"
  \/ Len(s) = 1 /\ IsDigit(s[1]) /\ s[1] # "0"
  \/ Len(s) = 2 /\ s[1] = " " /\ IsDigit(s[2]) /\ s[2] # "0"

ReH(s) ==
  \/ Len(s) = 2 /\ s[1] = "2" /\ s[2] \in {"0", "1", "2", "3"}
  \/ Len(s) = 2 /\ s[1] \in {"0", "1"} /\ IsDigit(s[2])
  \/ Len(s) = 1 /\ IsDigit(s[1])

ReMin(s) ==
  \/ Len(s) = 2 /\ s[1] \in {"0", "1", "2", "3", "4", "5"} /\ IsDigit(s[2])
  \/ Len(s) = 1 /\ IsDigit(s[1])

\* the ways the expression matches the whole of ts (a match that stops short
\* of the end is "unconverted data remains"): <<end of %m, end of %d, end of
\* the blanks, end of %H>>
ReMatches(ts) ==
  {p \in (6..7) \X (8..10) \X (9..Len(ts)) \X (10..Len(ts)) :
     /\ 5 < p[1] /\ p[1] + 1 < p[2] /\ p[2] < p[3] /\ p[3] < p[4] /\ p[4] + 1 < Len(ts)
     /\ ReY(SubSeq(ts, 1, 4))
     /\ ts[5] = "-"
     /\ ReM(SubSeq(ts, 6, p[1]))
     /\ ts[p[1] + 1] = "-"
     /\ ReD(SubSeq(ts, p[1] + 2, p[2]))
     /\ \A i \in (p[2] + 1)..p[3] : IsSpace(ts[i])
     /\ ReH(SubSeq(ts, p[3] + 1, p[4]))
     /\ ts[p[4] + 1] = ":"
     /\ ReMin(SubSeq(ts, p[4] + 2, Len(ts)))}

IsLeap(y) == (y % 4 = 0 /\ y % 100 # 0) \/ y % 400 = 0

DaysInMonth(y, m) ==
  IF m = 2 THEN (IF IsLeap(y) THEN 29 ELSE 28)
  ELSE IF m \in {4, 6, 9, 11} THEN 30 ELSE 31

\* the fields of a match, as the integers the library hands to datetime()
Fields(ts, p) ==
  [year   |-> Num(SubSeq(ts, 1, 4)),
   month  |-> Num(SubSeq(ts, 6, p[1])),
   day    |-> Num(LStrip(SubSeq(ts, p[1] + 2, p[2]))),
   hour   |-> Num(SubSeq(ts, p[3] + 1, p[4])),
   minute |-> Num(SubSeq(ts, p[4] + 2, Len(ts)))]

\* datetime() rejects year 0 and a day the month does not have
ValidDate(f) == f.year >= 1 /\ f.day <= DaysInMonth(f.year, f.month)

\* the set of datetimes strptime returns for ts: empty when it raises
\* ValueError, a single value otherwise
strptime(ts) == {f \in {Fields(ts, p) : p \in ReMatches(ts)} : ValidDate(f)}

strptime_raises(ts) == strptime(ts) = {}

\* strftime('%d/%m/%Y') and strftime('%H:%M')
strftime_date(dt) == Pad2(dt.day) \o <<"/">> \o Pad2(dt.month) \o <<"/">> \o Pad4(dt.year)

strftime_time(dt) == Pad2(dt.hour) \o <<":">> \o Pad2(dt.minute)

(* --------------------------- the CSV rows ------------------------------ *)
\* A row of csv.DictReader over the Fuelio export: ts is row["## Vehicle"],
\* the one named column, and cols is row[None], the unnamed columns, so that
\* Python's row[None][k] is cols[k + 1].
Cols(cost) ==
  << <<"1", "0", "0", "0", ".", "7">>,   \* 0 odometer
     <<"4", "0", ".", "5">>,             \* 1 fuel
     <<"1">>,                            \* 2 full
     cost,                               \* 3 cost
     <<"0">>,                            \* 4
     <<"5", "1">>,                       \* 5 latitude
     <<"-", "1">>,                       \* 6 longitude
     <<"B", "P", " ">>,                  \* 7 station
     <<>>,                               \* 8 notes
     <<"0">> >>                          \* 9 missed

Stamp(y, m, d, h, mi) == Pad4(y) \o <<"-">> \o Pad2(m) \o <<"-">> \o Pad2(d) \o <<" ">> \o Pad2(h) \o <<":">> \o Pad2(mi)

RowA == [ts |-> Stamp(2024, 1, 1, 10, 0), cols |-> Cols(<<"5", "0">>)]

\* the fillup of RowA with another cost
RowB == [ts |-> Stamp(2024, 1, 1, 10, 0), cols |-> Cols(<<"5", "5">>)]

RowC == [ts |-> Stamp(2024, 2, 29, 18, 30), cols |-> [Cols(<<"6", "0">>) EXCEPT ![9] = <<"o", "k">>]]

\* a row of another section of the export
RowX == [ts |-> <<"n", "o", "t", "-", "a", "-", "d", "a", "t", "e">>, cols |-> Cols(<<"0">>)]

FillRows == {RowA, RowB, RowC}

CsvRows == FillRows \cup {RowX}

WithTs(ts) == [ts |-> ts, cols |-> Cols(<<"5", "0">>)]

\* first columns strptime accepts: padded, unpadded, blank-padded day, two blanks
GoodStamps ==
  { Stamp(2024, 1, 1, 10, 0),
    Stamp(2024, 2, 29, 18, 30),
    <<"2", "0", "2", "4", "-", "1", "-", "5", " ", "9", ":", "0", "5">>,
    <<"2", "0", "2", "4", "-", "0", "1", "-", " ", "1", " ", " ", "1", "0", ":", "0", "0">> }

\* first columns strptime rejects: other text, the empty string, a date alone,
\* seconds after the minutes, month 13, 30 February, 29 February 2023,
\* hour 24, minute 60, year 0
BadStamps ==
  { <<"n", "o", "t", "-", "a", "-", "d", "a", "t", "e">>,
    <<>>,
    <<"2", "0", "2", "4", "-", "0", "1", "-", "0", "1">>,
    Stamp(2024, 1, 1, 10, 0) \o <<":", "0", "0">>,
    Stamp(2024, 13, 1, 10, 0),
    Stamp(2024, 2, 30, 10, 0),
    Stamp(2023, 2, 29, 10, 0),
    Stamp(2024, 1, 1, 24, 0),
    Stamp(2024, 1, 1, 10, 60),
    Stamp(0, 1, 1, 10, 0) }

FilterRows == {WithTs(ts) : ts \in GoodStamps \cup BadStamps}

\* the sequences over S of length at most n
SeqsUpTo(S, n) == UNION {[1..k -> S] : k \in 0..n}

(* ------------------------ lubelogger_converter ------------------------- *)
\* int(float(s)) for the text of a non-negative decimal: the digits before
\* the point
IntOfFloat(s) ==
  LET dots == {i \in 1..Len(s) : s[i] = "."}
      stop == IF dots = {} THEN Len(s) ELSE (CHOOSE i \in dots : \A j \in dots : i <= j) - 1
  IN Num(SubSeq(s, 1, stop))

lubelogger_converter(fillup) ==
  LET fillup_datetime == CHOOSE dt \in strptime(fillup.ts) : TRUE
      c == fillup.cols
      base == <<"Fuel station: ">> \o Strip(c[8])
                \o <<"\n\nLocation: [">> \o c[6] \o <<",">> \o c[7]
                \o <<"](https://www.google.com/maps/place/">> \o c[6] \o <<",">> \o c[7]
                \o <<")\n\nTime: ">> \o strftime_time(fillup_datetime)
      fillup_notes == IF c[9] # <<>>
                      THEN base \o <<"\n\n###### Fuelio notes:\n\n">> \o c[9]
                      ELSE base
  IN [date            |-> strftime_date(fillup_datetime),
      odometer        |-> IntOfFloat(c[1]),
      fuel_consumed   |-> c[2],
      cost            |-> c[4],
      is_fill_to_full |-> (Num(c[3]) = 1),
      missed_fuel_up  |-> (Num(c[10]) = 1),
      notes           |-> fillup_notes]

\* the fields of a LubeloggerFillup; two fillups are equal when all agree
FillupKeys == {"date", "odometer", "fuel_consumed", "cost", "is_fill_to_full", "missed_fuel_up", "notes"}

\* what the destination can hold: fillups imported earlier
KnownFillups == {lubelogger_converter(r) : r \in FillRows}

Range(s) == {s[i] : i \in 1..Len(s)}

(* ------------------------------ state ---------------------------------- *)
VARIABLES
  entry,        \* the function the run entered at: main, process_fillups or filter_fuelio_fillups
  run,          \* number of the current run
  argv_dry_run, \* --dry-run is on the command line
  config,       \* the loaded config.yml: a function from the keys it has
  fuelio_data,  \* the rows of the CSV in the backup
  destination,  \* the fillups Lubelogger holds, a bag
  dest_at_start,\* destination when the current run started
  prev,         \* how the previous run ended
  pc,           \* position in the program
  error,        \* the exception that ended the run, or "none"
  io,           \* calls made to the external collaborators, in order
  idx,          \* filter_fuelio_fillups: next row of fuelio_data
  fillups,      \* filter_fuelio_fillups: rows kept so far
  fuelio_fills, \* the filtered rows
  lubelog_fills,
  dry_run,
  unique_fuelio_fills,
  exiting_duplicate_ll_fills,
  new_duplicate_ll_fills,
  new_ll_fills,
  todo,         \* elements the first loop has not visited
  zip_e,        \* elements of exiting_duplicate_ll_fills zip has not yielded
  zip_n,        \* elements of new_duplicate_ll_fills zip has not yielded
  new_fill,     \* the first loop's variable
  add_calls,    \* add_fillup calls of this run, a bag
  log           \* log records of this run, a bag

inputs == <<entry, argv_dry_run, config, fuelio_data>>

sets == <<unique_fuelio_fills, exiting_duplicate_ll_fills, new_duplicate_ll_fills, new_ll_fills>>

loops == <<todo, zip_e, zip_n, new_fill>>

vars == <<entry, run, argv_dry_run, config, fuelio_data, destination, dest_at_start, prev,
          pc, error, io, idx, fillups, fuelio_fills, lubelog_fills, dry_run,
          unique_fuelio_fills, exiting_duplicate_ll_fills, new_duplicate_ll_fills,
          new_ll_fills, todo, zip_e, zip_n, new_fill, add_calls, log>>

(* ------------------------------ config --------------------------------- *)
ConfigKeys == {"lubelogger_url", "lubelogger_username", "lubelogger_password",
               "drive_folder_id", "fuelio_vehicle_id", "auth_type", "lubelogger_vehicle_id"}

\* the members of gdrive.AuthType
AuthType == {"oauth", "service"}

FullConfig == [k \in ConfigKeys |-> IF k = "auth_type" THEN "oauth" ELSE "set"]

\* config.yml without one of its keys
Without(key) == [k \in ConfigKeys \ {key} |-> FullConfig[k]]

\* the config.yml files: complete, with a key missing, with an auth_type that
\* is no member of AuthType
Configs ==
  {FullConfig, [FullConfig EXCEPT !["auth_type"] = "bogus"]} \cup {Without(key) : key \in ConfigKeys}

Has(key) == key \in DOMAIN config

(* ------------------------------- Init ---------------------------------- *)
Unbound == [unbound |-> TRUE]

NoRun == [dry_run |-> FALSE, completed |-> FALSE]

Destinations == {d \in SUBSET KnownFillups : Cardinality(d) <= MaxExisting}

InitLocals ==
  /\ run = 1
  /\ prev = NoRun
  /\ error = "none"
  /\ io = <<>>
  /\ idx = 1
  /\ fillups = <<>>
  /\ unique_fuelio_fills = {}
  /\ exiting_duplicate_ll_fills = {}
  /\ new_duplicate_ll_fills = {}
  /\ new_ll_fills = {}
  /\ todo = {}
  /\ zip_e = {}
  /\ zip_n = {}
  /\ new_fill = Unbound
  /\ add_calls = EmptyBag
  /\ log = EmptyBag

\* python main.py [--dry-run]
InitMain ==
  /\ entry = "main"
  /\ pc = "main"
  /\ argv_dry_run \in BOOLEAN
  /\ config \in Configs
  /\ fuelio_data \in SeqsUpTo(CsvRows, MaxRows)
  /\ \E d \in Destinations : destination = SetToBag(d) /\ dest_at_start = SetToBag(d)
  /\ fuelio_fills = <<>>
  /\ lubelog_fills = {}
  /\ dry_run = FALSE
  /\ InitLocals

\* process_fillups(fuelio_fills, lubelogger, lubelog_fills, config, dry_run)
InitProcess ==
  /\ entry = "process_fillups"
  /\ pc = "process_fillups"
  /\ argv_dry_run = FALSE
  /\ config \in {FullConfig, Without("lubelogger_vehicle_id")}
  /\ fuelio_data = <<>>
  /\ fuelio_fills \in SeqsUpTo(FillRows, MaxRows)
  /\ \E d \in Destinations :
       /\ destination = SetToBag(d)
       /\ dest_at_start = SetToBag(d)
       /\ lubelog_fills = d
  /\ dry_run \in BOOLEAN
  /\ InitLocals

\* filter_fuelio_fillups(fuelio_data)
InitFilter ==
  /\ entry = "filter_fuelio_fillups"
  /\ pc = "filter"
  /\ argv_dry_run = FALSE
  /\ config = FullConfig
  /\ fuelio_data \in SeqsUpTo(FilterRows, MaxFilterRows)
  /\ destination = EmptyBag
  /\ dest_at_start = EmptyBag
  /\ fuelio_fills = <<>>
  /\ lubelog_fills = {}
  /\ dry_run = FALSE
  /\ InitLocals

Init == InitMain \/ InitProcess \/ InitFilter

\* the run ends with exception e
Raise(e) == pc' = "done" /\ error' = e

LogRec(kind, about, date, diff) == [kind |-> kind, about |-> about, date |-> date, diff |-> diff]

(* ------------------------------- main ---------------------------------- *)
\* main, up to the construction of the Lubelogger client
MainStart ==
  /\ pc = "main"
  /\ IF Has("lubelogger_url") /\ Has("lubelogger_username") /\ Has("lubelogger_password")
     THEN /\ io' = Append(io, "Lubelogger")
          /\ pc' = "fetch_backup_data"
          /\ error' = error
     ELSE /\ Raise("KeyError")
          /\ io' = io
  /\ UNCHANGED <<inputs, run, destination, dest_at_start, prev, idx, fillups, fuelio_fills,
                 lubelog_fills, dry_run, sets, loops, add_calls, log>>

\* fetch_backup_data, up to the construction of the GDrive client
FetchBackupData ==
  /\ pc = "fetch_backup_data"
  /\ IF ~(Has("drive_folder_id") /\ Has("fuelio_vehicle_id") /\ Has("auth_type"))
     THEN Raise("KeyError") /\ io' = io
     ELSE IF config["auth_type"] \notin AuthType
     THEN Raise("AssertionError") /\ io' = io
     ELSE /\ io' = Append(io, "GDrive")
          /\ pc' = "find_file"
          /\ error' = error
  /\ UNCHANGED <<inputs, run, destination, dest_at_start, prev, idx, fillups, fuelio_fills,
                 lubelog_fills, dry_run, sets, loops, add_calls, log>>

\* drive.find_file(...)[0]: the folder holds the backup or it does not
FindFile ==
  /\ pc = "find_file"
  /\ io' = Append(io, "find_file")
  /\ \E found \in BOOLEAN :
       IF found THEN pc' = "download" /\ error' = error
       ELSE Raise("IndexError")
  /\ UNCHANGED <<inputs, run, destination, dest_at_start, prev, idx, fillups, fuelio_fills,
                 lubelog_fills, dry_run, sets, loops, add_calls, log>>

\* fuelio_csv_from_backup: download, unzip, open the CSV
FuelioCsvFromBackup ==
  /\ pc = "download"
  /\ io' = Append(io, "GetContentFile")
  /\ pc' = "filter"
  /\ idx' = 1
  /\ fillups' = <<>>
  /\ UNCHANGED <<inputs, run, destination, dest_at_start, prev, error, fuelio_fills,
                 lubelog_fills, dry_run, sets, loops, add_calls, log>>

(* ------------------------ filter_fuelio_fillups ------------------------ *)
\* the loop with the append moved out of the try
FilterStepKeepsAll ==
  /\ pc = "filter"
  /\ idx <= Len(fuelio_data)
  /\ fillups' = Append(fillups, fuelio_data[idx])
  /\ idx' = idx + 1
  /\ UNCHANGED <<inputs, run, destination, dest_at_start, prev, pc, error, io, fuelio_fills,
                 lubelog_fills, dry_run, sets, loops, add_calls, log>>

\* one iteration of the loop over the rows
FilterStep ==
  /\ pc = "filter"
  /\ idx <= Len(fuelio_data)
  /\ fillups' = IF strptime_raises(fuelio_data[idx].ts)
                THEN fillups
                ELSE Append(fillups, fuelio_data[idx])
  /\ idx' = idx + 1
  /\ UNCHANGED <<inputs, run, destination, dest_at_start, prev, pc, error, io, fuelio_fills,
                 lubelog_fills, dry_run, sets, loops, add_calls, log>>

\* return fillups
FilterReturn ==
  /\ pc = "filter"
  /\ idx > Len(fuelio_data)
  /\ fuelio_fills' = fillups
  /\ pc' = IF entry = "main" THEN "check_empty" ELSE "done"
  /\ UNCHANGED <<inputs, run, destination, dest_at_start, prev, error, io, idx, fillups,
                 lubelog_fills, dry_run, sets, loops, add_calls, log>>

\* the check without its return
CheckEmptyFallsThrough ==
  /\ pc = "check_empty"
  /\ log' = IF Len(fuelio_fills) = 0
            THEN log (+) SetToBag({LogRec("no_fillups", <<>>, <<>>, {})})
            ELSE log
  /\ pc' = "get_fillups"
  /\ UNCHANGED <<inputs, run, destination, dest_at_start, prev, error, io, idx, fillups,
                 fuelio_fills, lubelog_fills, dry_run, sets, loops, add_calls>>

\* main: nothing to import
CheckEmpty ==
  /\ pc = "check_empty"
  /\ IF Len(fuelio_fills) = 0
     THEN /\ log' = log (+) SetToBag({LogRec("no_fillups", <<>>, <<>>, {})})
          /\ pc' = "done"
     ELSE /\ log' = log
          /\ pc' = "get_fillups"
  /\ UNCHANGED <<inputs, run, destination, dest_at_start, prev, error, io, idx, fillups,
                 fuelio_fills, lubelog_fills, dry_run, sets, loops, add_calls>>

\* main: fetch the destination's fillups and call process_fillups
GetFillups ==
  /\ pc = "get_fillups"
  /\ IF Has("lubelogger_vehicle_id")
     THEN /\ io' = Append(io, "get_fillups")
          /\ lubelog_fills' = BagToSet(destination)
          /\ dry_run' = argv_dry_run
          /\ pc' = "process_fillups"
          /\ error' = error
     ELSE /\ Raise("KeyError")
          /\ UNCHANGED <<io, lubelog_fills, dry_run>>
  /\ UNCHANGED <<inputs, run, destination, dest_at_start, prev, idx, fillups, fuelio_fills,
                 sets, loops, add_calls, log>>

(* --------------------------- process_fillups --------------------------- *)
\* set(map(lubelogger_converter, fuelio_fills))
UniqueFuelioFills(fills) == {lubelogger_converter(fills[i]) : i \in 1..Len(fills)}

\* lubelog_fills.union(unique_fuelio_fills)
ExitingDuplicateLlFillsDisjoint(existing, unique) == existing \ unique

ExitingDuplicateLlFills(existing, unique) == existing \cup unique

\* unique_fuelio_fills.union(lubelog_fills)
NewDuplicateLlFills(existing, unique) == unique \cup existing

\* unique_fuelio_fills.union(lubelog_fills.difference(unique_fuelio_fills))
NewLlFills(existing, unique) == unique \cup (existing \ unique)

\* the sets computed before the loops
ProcessFillups ==
  /\ pc = "process_fillups"
  /\ unique_fuelio_fills' = UniqueFuelioFills(fuelio_fills)
  /\ exiting_duplicate_ll_fills' = ExitingDuplicateLlFills(lubelog_fills, unique_fuelio_fills')
  /\ new_duplicate_ll_fills' = NewDuplicateLlFills(lubelog_fills, unique_fuelio_fills')
  /\ new_ll_fills' = NewLlFills(lubelog_fills, unique_fuelio_fills')
  /\ todo' = new_ll_fills'
  /\ pc' = "add_loop"
  /\ UNCHANGED <<inputs, run, destination, dest_at_start, prev, error, io, idx, fillups,
                 fuelio_fills, lubelog_fills, dry_run, zip_e, zip_n, new_fill, add_calls, log>>

\* logger.info("Dry run: Would add fuel fillup from %s", new_fill.date)
ReportDryRun(f) ==
  /\ log' = log (+) SetToBag({LogRec("dry_run", f, f.date, {})})
  /\ UNCHANGED <<pc, error, add_calls, destination>>

\* the call with its failure caught and the loop going on
AddFillupSwallowed(f) ==
  IF ~Has("lubelogger_vehicle_id")
  THEN /\ Raise("KeyError")
       /\ UNCHANGED <<log, add_calls, destination>>
  ELSE \E ok \in BOOLEAN :
       /\ add_calls' = add_calls (+) SetToBag({[fill |-> f, ok |-> ok]})
       /\ log' = log
       /\ destination' = IF ok THEN destination (+) SetToBag({f}) ELSE destination
       /\ UNCHANGED <<pc, error>>

\* lubelogger.add_fillup(config["lubelogger_vehicle_id"], new_fill): the
\* request is accepted and the destination holds one more fillup, or it
\* fails and the exception leaves process_fillups
AddFillup(f) ==
  IF ~Has("lubelogger_vehicle_id")
  THEN /\ Raise("KeyError")
       /\ UNCHANGED <<log, add_calls, destination>>
  ELSE \E ok \in BOOLEAN :
       /\ add_calls' = add_calls (+) SetToBag({[fill |-> f, ok |-> ok]})
       /\ log' = log
       /\ IF ok
          THEN /\ destination' = destination (+) SetToBag({f})
               /\ UNCHANGED <<pc, error>>
          ELSE /\ Raise("RequestError")
               /\ destination' = destination

\* the loop with the test of dry_run the wrong way round
AddStepInverted ==
  /\ pc = "add_loop"
  /\ \E f \in todo :
       /\ new_fill' = f
       /\ todo' = todo \ {f}
       /\ IF dry_run THEN AddFillup(f) ELSE ReportDryRun(f)
  /\ UNCHANGED <<inputs, run, dest_at_start, prev, io, idx, fillups, fuelio_fills,
                 lubelog_fills, dry_run, sets, zip_e, zip_n>>

\* one iteration of "for new_fill in new_ll_fills"; a set yields its
\* elements in no fixed order
AddStep ==
  /\ pc = "add_loop"
  /\ \E f \in todo :
       /\ new_fill' = f
       /\ todo' = todo \ {f}
       /\ IF ~dry_run THEN AddFillup(f) ELSE ReportDryRun(f)
  /\ UNCHANGED <<inputs, run, dest_at_start, prev, io, idx, fillups, fuelio_fills,
                 lubelog_fills, dry_run, sets, zip_e, zip_n>>

\* the first loop is exhausted; zip starts on the two unions
AddLoopExit ==
  /\ pc = "add_loop"
  /\ todo = {}
  /\ zip_e' = exiting_duplicate_ll_fills
  /\ zip_n' = new_duplicate_ll_fills
  /\ pc' = "dup_loop"
  /\ UNCHANGED <<inputs, run, destination, dest_at_start, prev, error, io, idx, fillups,
                 fuelio_fills, lubelog_fills, dry_run, sets, todo, new_fill, add_calls, log>>

\* the keys on which the incoming fillup differs from the existing one
DiffKeys(existing_duplicate_fill, new_duplicate_fill) ==
  {key \in FillupKeys : new_duplicate_fill[key] # existing_duplicate_fill[key]}

\* one iteration of the loop over zip(exiting_duplicate_ll_fills,
\* new_duplicate_ll_fills): each set yields its next element, in its own order
DupStep ==
  /\ pc = "dup_loop"
  /\ \E e \in zip_e, n \in zip_n :
       /\ zip_e' = zip_e \ {e}
       /\ zip_n' = zip_n \ {n}
       /\ IF new_fill = Unbound
          THEN Raise("UnboundLocalError") /\ log' = log
          ELSE /\ log' = log (+) SetToBag({LogRec("dup_warning", <<e, n>>, new_fill.date, DiffKeys(e, n))})
               /\ UNCHANGED <<pc, error>>
  /\ UNCHANGED <<inputs, run, destination, dest_at_start, prev, io, idx, fillups, fuelio_fills,
                 lubelog_fills, dry_run, sets, todo, new_fill, add_calls>>

\* zip is exhausted; "if not new_ll_fills"
ProcessReturn ==
  /\ pc = "dup_loop"
  /\ zip_e = {} \/ zip_n = {}
  /\ log' = IF new_ll_fills = {}
            THEN log (+) SetToBag({LogRec("up_to_date", <<>>, <<>>, {})})
            ELSE log
  /\ pc' = "returned"
  /\ UNCHANGED <<inputs, run, destination, dest_at_start, prev, error, io, idx, fillups,
                 fuelio_fills, lubelog_fills, dry_run, sets, loops, add_calls>>

\* main returns, the process exits
Exit ==
  /\ pc = "returned"
  /\ pc' = "done"
  /\ UNCHANGED <<inputs, run, destination, dest_at_start, prev, error, io, idx, fillups,
                 fuelio_fills, lubelog_fills, dry_run, sets, loops, add_calls, log>>

\* after a run that ended normally the program is started again, the same
\* way, on the same backup and config
Rerun ==
  /\ pc = "done"
  /\ error = "none"
  /\ entry # "filter_fuelio_fillups"
  /\ run < MaxRuns
  /\ run' = run + 1
  /\ prev' = [dry_run |-> dry_run,
              completed |-> (entry = "process_fillups" \/ Len(fuelio_fills) > 0)]
  /\ dest_at_start' = destination
  /\ error' = "none"
  /\ io' = <<>>
  /\ idx' = 1
  /\ fillups' = <<>>
  /\ unique_fuelio_fills' = {}
  /\ exiting_duplicate_ll_fills' = {}
  /\ new_duplicate_ll_fills' = {}
  /\ new_ll_fills' = {}
  /\ todo' = {}
  /\ zip_e' = {}
  /\ zip_n' = {}
  /\ new_fill' = Unbound
  /\ add_calls' = EmptyBag
  /\ log' = EmptyBag
  /\ IF entry = "main"
     THEN /\ pc' = "main"
          /\ argv_dry_run' = argv_dry_run
          /\ dry_run' = FALSE
          /\ fuelio_fills' = <<>>
          /\ lubelog_fills' = {}
     ELSE /\ pc' = "process_fillups"
          /\ argv_dry_run' = argv_dry_run
          /\ dry_run' = dry_run
          /\ fuelio_fills' = fuelio_fills
          /\ lubelog_fills' = BagToSet(destination)
  /\ UNCHANGED <<entry, config, fuelio_data, destination>>

Next ==
  \/ MainStart
  \/ FetchBackupData
  \/ FindFile
  \/ FuelioCsvFromBackup
  \/ FilterStep
  \/ FilterReturn
  \/ CheckEmpty
  \/ GetFillups
  \/ ProcessFillups
  \/ AddStep
  \/ AddLoopExit
  \/ DupStep
  \/ ProcessReturn
  \/ Exit
  \/ Rerun

Spec == Init /\ [][Next]_vars

(* ============================ properties =============================== *)
\* the converted Fuelio fillups of this run, once process_fillups has made them
Incoming == unique_fuelio_fills

\* the fillups handed to add_fillup in this run
Added == {c.fill : c \in BagToSet(add_calls)}

FailedCalls == {c \in BagToSet(add_calls) : ~c.ok}

\* number of records of a kind in the log
Logged(kind) ==
  LET recs == {r \in BagToSet(log) : r.kind = kind}
  IN IF recs = {} THEN 0 ELSE BagCardinality([r \in recs |-> log[r]])

\* process_fillups has returned
Returned == pc = "returned"

\* the backup has been downloaded
Downloaded == "GetContentFile" \in Range(io)

\* the run was asked to be a dry run
DryRunAsked == IF entry = "main" THEN argv_dry_run ELSE dry_run

InProcessFillups == pc \in {"process_fillups", "add_loop", "dup_loop", "returned"}

\* C1: after a non-dry-run call of process_fillups the fillups passed to
\* add_fillup are exactly incoming \ existing, each passed once.
C1_AddsExactlyTheDifference ==
  (Returned /\ ~dry_run) =>
     /\ Added = Incoming \ lubelog_fills
     /\ \A c \in BagToSet(add_calls) : CopiesIn(c, add_calls) = 1

\* C2: when every incoming fillup is already in the existing set, add_fillup
\* is not called and "up to date" is reported; and "up to date" is reported
\* only when incoming \ existing is empty.
C2_UpToDateWhenNothingNew ==
  Returned =>
     /\ (Incoming \subseteq lubelog_fills) => (add_calls = EmptyBag /\ Logged("up_to_date") = 1)
     /\ (Logged("up_to_date") > 0) => (Incoming \ lubelog_fills = {})

\* C3: a run that follows a completed non-dry run on the same backup computes
\* an empty set to add, calls add_fillup zero times and leaves the destination
\* as it found it.
C3_SecondRunAddsNothing ==
  (run > 1 /\ prev.completed /\ ~prev.dry_run /\ Returned) =>
     /\ new_ll_fills = {}
     /\ add_calls = EmptyBag
     /\ destination = dest_at_start

\* C4: dry_run is what --dry-run says; in a dry run add_fillup is never
\* called, the destination is never written, and once the first loop is over
\* every fillup of the set to add has been reported exactly once as one that
\* would be added.
C4_DryRunNeverWrites ==
  /\ (entry = "main" /\ InProcessFillups) => (dry_run = argv_dry_run)
  /\ DryRunAsked => (add_calls = EmptyBag /\ destination = dest_at_start)
  /\ (DryRunAsked /\ pc \in {"dup_loop", "returned"}) =>
        /\ (Incoming \ lubelog_fills) \subseteq new_ll_fills
        /\ \A f \in new_ll_fills : CopiesIn(LogRec("dry_run", f, f.date, {}), log) = 1

C4_Witness ==
  /\ entry = "main" /\ argv_dry_run /\ Returned
  /\ Incoming \ lubelog_fills # {}
  /\ Logged("dry_run") > 1

\* C5: an incoming fillup with the date of an existing fillup from which it
\* differs in another field is not passed to add_fillup and is reported with
\* a warning that names the differing fields.
C5_SameDateConflictFlagged ==
  (Returned /\ ~dry_run) =>
     \A f \in Incoming : \A e \in lubelog_fills :
        (f.date = e.date /\ f # e /\ f \notin lubelog_fills) =>
           /\ f \notin Added
           /\ CopiesIn(LogRec("dup_warning", <<e, f>>, f.date, DiffKeys(e, f)), log) > 0

\* C6: a failed add_fillup call ends the run in error at that call: the call
\* is the only failed one, nothing of the duplicate report or the "up to
\* date" status is logged, and the run makes no further call and logs nothing
\* more.
C6_WriteFailureIsFailFast ==
  /\ [](FailedCalls # {} =>
          /\ pc = "done"
          /\ error = "RequestError"
          /\ \A c \in FailedCalls : Cardinality(FailedCalls) = 1 /\ CopiesIn(c, add_calls) = 1
          /\ Logged("dup_warning") = 0
          /\ Logged("up_to_date") = 0)
  /\ [][(FailedCalls # {} /\ run' = run) => (add_calls' = add_calls /\ log' = log /\ destination' = destination)]_vars

C6_Witness ==
  /\ FailedCalls # {}
  /\ Cardinality(BagToSet(add_calls)) > 1
  /\ todo # {}

C7_ConfigErrors == {"KeyError", "AssertionError"}

\* C7: a run that ends on a configuration error has made no call to an
\* external collaborator: no client constructed, no backup looked up or
\* downloaded, no get_fillups, no add_fillup.
C7_ConfigErrorBeforeAnyIO ==
  (entry = "main" /\ error \in C7_ConfigErrors) => (io = <<>> /\ add_calls = EmptyBag)

NoRowPasses == \A i \in 1..Len(fuelio_data) : fuelio_data[i].ts \notin GoodStamps

\* C8: when no row of the downloaded backup passes the filter, main logs the
\* informational message once and returns without error, without get_fillups,
\* without process_fillups and without add_fillup.
C8_EmptyResultIsNoOp ==
  (entry = "main" /\ Downloaded /\ NoRowPasses /\ pc \notin {"filter", "check_empty"}) =>
     /\ pc = "done"
     /\ error = "none"
     /\ log = SetToBag({LogRec("no_fillups", <<>>, <<>>, {})})
     /\ "get_fillups" \notin Range(io)
     /\ new_fill = Unbound
     /\ add_calls = EmptyBag
     /\ destination = dest_at_start

C8_Witness ==
  /\ entry = "main" /\ Downloaded /\ NoRowPasses /\ pc = "done"
  /\ Len(fuelio_data) > 1

\* the rows among the first n whose first column is a date and time
RECURSIVE FillupRows(_, _)
FillupRows(rows, n) ==
  IF n = 0 THEN <<>>
  ELSE IF rows[n].ts \in GoodStamps
       THEN Append(FillupRows(rows, n - 1), rows[n])
       ELSE FillupRows(rows, n - 1)

\* C9: filter_fuelio_fillups keeps exactly the rows whose "## Vehicle" field
\* is a date and time in the form YYYY-MM-DD HH:MM, in their order; the other
\* rows are left out and raise nothing.
C9_FilterKeepsTimestampedRows ==
  /\ (pc = "filter") =>
        /\ error = "none"
        /\ fillups = FillupRows(fuelio_data, idx - 1)
  /\ (entry = "filter_fuelio_fillups" /\ pc = "done") =>
        /\ error = "none"
        /\ fuelio_fills = FillupRows(fuelio_data, Len(fuelio_data))
  /\ (entry = "main" /\ Downloaded /\ pc # "filter") =>
        fuelio_fills = FillupRows(fuelio_data, Len(fuelio_data))

C9_Witness ==
  /\ entry = "filter_fuelio_fillups" /\ pc = "done"
  /\ Len(fuelio_fills) = 1
  /\ Len(fuelio_data) = 2
  /\ fuelio_data[1].ts = <<"n", "o", "t", "-", "a", "-", "d", "a", "t", "e">>

====
